---- MODULE Spec2Model ----
(***************************************************************************)
(* A model of src/ea_utils.py: the slug generator gen_slug, the date       *)
(* formatters format_date / format_datetime and readable_number.           *)
(*                                                                         *)
(* A string is a sequence of characters; a character is a one-symbol       *)
(* token ("a", "-", ...) or the token "kanji", which stands for one        *)
(* logographic (non-ASCII) letter.                                         *)
(***************************************************************************)
EXTENDS Integers, Sequences, FiniteSets, TLC

VARIABLES
    pc,             \* position of the gen_slug call: "idle", "loop", "done"
    input_string,   \* gen_slug argument
    arg,            \* the list bound to existing_slugs: "store" or "default"
    delimiter,      \* gen_slug argument
    base,           \* gen_slug local
    slug,           \* gen_slug local
    counter,        \* gen_slug local
    result,         \* value returned by the last gen_slug call
    store,          \* the caller's collection of existing slugs
    default_slugs,  \* the list object of the default argument existing_slugs=[]
    tested,         \* number of evaluations of the loop condition in this call
    issued,         \* the slugs issued and inserted so far, oldest first
    date_pc,        \* position of the format_date / format_datetime call
    d,              \* format_date / format_datetime argument
    format,         \* format_date / format_datetime argument
    date_ret,       \* value returned by format_date / format_datetime
    num_pc,         \* position of the readable_number call
    num,            \* readable_number argument, rescaled by the loop
    things,         \* readable_number arguments single_thing, plura_thing
    magnitude,      \* readable_number local
    num_ret         \* outcome of readable_number

slugvars == <<pc, input_string, arg, delimiter, base, slug, counter, result,
              store, default_slugs, tested, issued>>
datevars == <<date_pc, d, format, date_ret>>
numvars == <<num_pc, num, things, magnitude, num_ret>>
vars == <<slugvars, datevars, numvars>>

-----------------------------------------------------------------------------
(* Bounds *)

MaxLen == 3
MaxK == 1
MaxChain == 10
MaxStore == 3
MaxTested == 15
MaxExp == 5

-----------------------------------------------------------------------------
(* Characters and strings *)

Space == " "
Kanji == "kanji"
Chars == {"a", "A", "1", Space, "-", Kanji}
Delims == {"-", "_"}
DigitChars == <<"0", "1", "2", "3", "4", "5", "6", "7", "8", "9">>
Letters == {"a", "A", "R", "r", "i", Kanji}

\* the input strings: every string over Chars up to MaxLen
Inputs == UNION {[1..n -> Chars] : n \in 0..MaxLen}

IsAlnum(c) == c \in Letters \/ \E i \in 1..10 : DigitChars[i] = c

ToLower(c) == IF c = "A" THEN "a" ELSE IF c = "R" THEN "r" ELSE c

\* '%i' % n for n >= 0: the decimal digits of n
RECURSIVE IntToStr(_)
IntToStr(n) ==
    IF n < 10 THEN <<DigitChars[n + 1]>>
    ELSE IntToStr(n \div 10) \o <<DigitChars[(n % 10) + 1]>>

\* s.find(' ') > -1
HasSpace(s) == \E i \in 1..Len(s) : s[i] = Space

-----------------------------------------------------------------------------
(* slugify(s, ok=..., only_ascii=...), the imported normalisation routine   *)

\* letters, digits and the ok character are kept; whitespace and every other
\* separator become a space
Keep(s, ok) ==
    [i \in 1..Len(s) |-> IF IsAlnum(s[i]) \/ s[i] = ok THEN s[i] ELSE Space]

Lower(s) == [i \in 1..Len(s) |-> ToLower(s[i])]

IsSep(c, ok) == c = Space \/ c = ok

\* every run of separators becomes one ok character
RECURSIVE Collapse(_, _)
Collapse(s, ok) ==
    IF s = <<>> THEN <<>>
    ELSE IF IsSep(Head(s), ok)
         THEN IF Len(s) > 1 /\ IsSep(s[2], ok)
              THEN Collapse(Tail(s), ok)
              ELSE <<ok>> \o Collapse(Tail(s), ok)
         ELSE <<Head(s)>> \o Collapse(Tail(s), ok)

\* leading and trailing ok characters are removed
RECURSIVE Strip(_, _)
Strip(s, ok) ==
    IF s = <<>> THEN <<>>
    ELSE IF Head(s) = ok THEN Strip(Tail(s), ok)
    ELSE IF s[Len(s)] = ok THEN Strip(SubSeq(s, 1, Len(s) - 1), ok)
    ELSE s

\* the ASCII transliteration: a logographic letter becomes a capitalised
\* syllable followed by a space, ASCII characters are unchanged
RECURSIVE Transliterate(_)
Transliterate(s) ==
    IF s = <<>> THEN <<>>
    ELSE (IF Head(s) = Kanji THEN <<"R", "i", Space>> ELSE <<Head(s)>>)
         \o Transliterate(Tail(s))

Slugify(s, ok, only_ascii) ==
    LET n == Strip(Collapse(Lower(Keep(s, ok)), ok), ok)
    IN  IF only_ascii THEN Transliterate(n) ELSE n

-----------------------------------------------------------------------------
(* Python values of the date and number helpers *)

None == [tag |-> "none"]
Str(s) == [tag |-> "str", val |-> s]

NoDateCall ==
    /\ date_pc = "idle"
    /\ d = None
    /\ format = <<>>
    /\ date_ret = None

NoNumCall ==
    /\ num_pc = "idle"
    /\ num = None
    /\ things = <<Str(<<>>), Str(<<>>)>>
    /\ magnitude = 0
    /\ num_ret = None

-----------------------------------------------------------------------------
(* gen_slug *)

\* lines 65-69: the base, with the second pass when the first leaves a space
SlugBase(s, dl) ==
    LET first == Slugify(s, dl, TRUE)
    IN  IF HasSpace(first) THEN Slugify(first, dl, FALSE) ELSE first

\* the counter joined without the delimiter
FormatSlugNoDelim(b, dl, k) == b \o IntToStr(k)

\* the counter joined with a fixed hyphen
FormatSlugHyphen(b, dl, k) == b \o <<"-">> \o IntToStr(k)

\* line 73: '%s%s%i' % (base, delimiter, counter)
FormatSlug(b, dl, k) == b \o <<dl>> \o IntToStr(k)

\* the collection the parameter existing_slugs is bound to
Existing == IF arg = "default" THEN default_slugs ELSE store

\* an "if" in place of the "while": the body runs at most once
LoopCondIf == slug \in Existing /\ counter = 1

\* line 72: slug in existing_slugs
LoopCond == slug \in Existing

\* lines 57-71: the call binds the parameters, computes base, slug, counter
Call(s, dl, a) ==
    /\ pc = "idle"
    /\ pc' = "loop"
    /\ input_string' = s
    /\ delimiter' = dl
    /\ arg' = a
    /\ base' = SlugBase(s, dl)
    /\ slug' = SlugBase(s, dl)
    /\ counter' = 1
    /\ tested' = 0
    /\ UNCHANGED <<result, store, default_slugs, issued, datevars, numvars>>

\* the loop body without the increment of the counter
StepNoInc ==
    /\ pc = "loop"
    /\ LoopCond
    /\ tested < MaxTested
    /\ slug' = FormatSlug(base, delimiter, counter)
    /\ counter' = counter
    /\ tested' = tested + 1
    /\ UNCHANGED <<pc, input_string, arg, delimiter, base, result,
                   store, default_slugs, issued, datevars, numvars>>

\* the loop body with the increment before the formatting
StepIncFirst ==
    /\ pc = "loop"
    /\ LoopCond
    /\ tested < MaxTested
    /\ slug' = FormatSlug(base, delimiter, counter + 1)
    /\ counter' = counter + 1
    /\ tested' = tested + 1
    /\ UNCHANGED <<pc, input_string, arg, delimiter, base, result,
                   store, default_slugs, issued, datevars, numvars>>

\* lines 72-74: the loop condition holds, the body runs once
Step ==
    /\ pc = "loop"
    /\ LoopCond
    /\ tested < MaxTested
    /\ slug' = FormatSlug(base, delimiter, counter)
    /\ counter' = counter + 1
    /\ tested' = tested + 1
    /\ UNCHANGED <<pc, input_string, arg, delimiter, base, result,
                   store, default_slugs, issued, datevars, numvars>>

\* the return with the slug also appended to the list passed in
ReturnAppend ==
    /\ pc = "loop"
    /\ ~LoopCond
    /\ pc' = "done"
    /\ result' = slug
    /\ tested' = tested + 1
    /\ store' = IF arg = "store" THEN store \cup {slug} ELSE store
    /\ default_slugs' = IF arg = "default" THEN default_slugs \cup {slug}
                                           ELSE default_slugs
    /\ UNCHANGED <<input_string, arg, delimiter, base, slug, counter,
                   issued, datevars, numvars>>

\* lines 72, 75: the loop condition fails, the slug is returned
Return ==
    /\ pc = "loop"
    /\ ~LoopCond
    /\ pc' = "done"
    /\ result' = slug
    /\ tested' = tested + 1
    /\ UNCHANGED <<input_string, arg, delimiter, base, slug, counter,
                   store, default_slugs, issued, datevars, numvars>>

\* the values of every gen_slug variable while no call is in progress
NoCall ==
    /\ pc = "idle"
    /\ input_string = <<>>
    /\ arg = "store"
    /\ delimiter = "-"
    /\ base = <<>>
    /\ slug = <<>>
    /\ counter = 0
    /\ result = <<>>
    /\ tested = 0

\* the caller drops the frame and does not persist the slug
Discard ==
    /\ pc = "done"
    /\ pc' = "idle"
    /\ input_string' = <<>>
    /\ arg' = "store"
    /\ delimiter' = "-"
    /\ base' = <<>>
    /\ slug' = <<>>
    /\ counter' = 0
    /\ result' = <<>>
    /\ tested' = 0
    /\ UNCHANGED <<store, default_slugs, issued, datevars, numvars>>

\* the stores a single call is checked against: for the empty base and for a
\* two-word base, the subsets of the first candidates, a store with a gap,
\* and a long chain that takes the counter past 9
ProbeBases(dl) == {<<>>, <<"a", dl, "a">>}

Candidates(b, dl, n) == {b} \cup {FormatSlug(b, dl, k) : k \in 1..n}

ExistingFamily ==
    UNION {UNION {SUBSET Candidates(b, dl, MaxK) : b \in ProbeBases(dl)} :
               dl \in Delims}
    \cup {{b, FormatSlug(b, "-", 2)} : b \in ProbeBases("-")}
    \cup {Candidates(<<"a", "-", "a">>, "-", MaxChain)}

Init ==
    /\ NoCall
    /\ store \in ExistingFamily
    /\ default_slugs = {}
    /\ issued = <<>>
    /\ NoDateCall
    /\ NoNumCall

\* a caller that keeps a store passes it; a caller without one omits the
\* argument, which binds existing_slugs to the default list
CallAny ==
    /\ pc = "idle"
    /\ \E s \in Inputs, dl \in Delims, a \in {"store", "default"} :
           /\ a = "default" => store = {}
           /\ Call(s, dl, a)

Next ==
    \/ CallAny
    \/ Step
    \/ Return
    \/ Discard

Spec == Init /\ [][Next]_vars

\* a started call keeps running: the loop body and the return are not
\* postponed forever
FairSpec == Spec /\ WF_vars(Step) /\ WF_vars(Return)

-----------------------------------------------------------------------------
(* gen_slug as a function of its arguments: lines 65-75 *)

RECURSIVE FirstFree(_, _, _, _)
FirstFree(b, dl, E, k) ==
    IF FormatSlug(b, dl, k) \notin E THEN FormatSlug(b, dl, k)
    ELSE FirstFree(b, dl, E, k + 1)

GenSlug(s, E, dl) ==
    LET b == SlugBase(s, dl)
    IN  IF b \notin E THEN b ELSE FirstFree(b, dl, E, 1)

-----------------------------------------------------------------------------
(* Claims about gen_slug *)

\* C1: the slug gen_slug returns is never a member of the existing slugs it
\* was given
C1_ResultNotInExisting == pc = "done" => result \notin Existing

C1_Witness ==
    /\ pc = "done"
    /\ tested > 2
    /\ base \in Existing
    /\ result \notin Existing

\* C2: the base is returned unchanged when it is not among the existing
\* slugs; otherwise the result is base + delimiter + k for the smallest
\* k >= 1 whose candidate is not among them
C2_SmallestFreeCounter ==
    pc = "done" =>
        /\ base = SlugBase(input_string, delimiter)
        /\ IF base \notin Existing
           THEN result = base
           ELSE \E k \in 1..(Cardinality(Existing) + 1) :
                    /\ result = base \o <<delimiter>> \o IntToStr(k)
                    /\ result \notin Existing
                    /\ \A j \in 1..(k - 1) :
                           base \o <<delimiter>> \o IntToStr(j) \in Existing

C2_Witness ==
    /\ pc = "done"
    /\ base = <<"a", "-", "a">>
    /\ delimiter = "-"
    /\ Existing = {<<"a", "-", "a">>, <<"a", "-", "a", "-", "1">>}
    /\ result = <<"a", "-", "a", "-", "2">>

\* C3: the counter search terminates, and no call tests more than
\* |existing_slugs| + 1 candidates
C3_Terminates ==
    /\ [](tested <= Cardinality(Existing) + 1)
    /\ (pc = "loop") ~> (pc = "done")

C3_Witness ==
    /\ pc = "done"
    /\ Cardinality(Existing) > 9
    /\ tested = Cardinality(Existing) + 1
    /\ result = <<"a", "-", "a", "-", "1", "1">>

\* C4: no step of a gen_slug call changes the caller's collection or the
\* default list, and the slug returned is the function GenSlug of the three
\* arguments alone
C4_Pure ==
    [][/\ store' = store
       /\ default_slugs' = default_slugs
       /\ pc' = "done" =>
              result' = GenSlug(input_string', Existing', delimiter')]_vars

C4_Witness ==
    /\ pc = "done"
    /\ tested > 1
    /\ store # {}
    /\ default_slugs = {}
    /\ result = GenSlug(input_string, store, delimiter)

\* C7: with the delimiter "_" the words of the base and the counter are both
\* joined by "_"
C7_CustomDelimiter ==
    (pc = "done" /\ input_string = <<"A", Space, "a">> /\ delimiter = "_") =>
        /\ <<"a", "_", "a">> \notin Existing => result = <<"a", "_", "a">>
        /\ (/\ <<"a", "_", "a">> \in Existing
            /\ <<"a", "_", "a", "_", "1">> \notin Existing)
               => result = <<"a", "_", "a", "_", "1">>

C7_Witness ==
    /\ pc = "done"
    /\ input_string = <<"A", Space, "a">>
    /\ delimiter = "_"
    /\ <<"a", "_", "a">> \in Existing
    /\ result = <<"a", "_", "a", "_", "1">>

-----------------------------------------------------------------------------
(* One slug store: every slug gen_slug returns is inserted before the next  *)
(* call                                                                     *)

StoreDelim == "-"
StoreInputs == {<<>>, <<"a">>, <<"A">>, <<"1">>, <<"a", Space, "1">>}

StoreInit ==
    /\ NoCall
    /\ store = {}
    /\ default_slugs = {}
    /\ issued = <<>>
    /\ NoDateCall
    /\ NoNumCall

\* the caller invokes gen_slug with the current store
StoreCall ==
    /\ pc = "idle"
    /\ Len(issued) < MaxStore
    /\ \E s \in StoreInputs : Call(s, StoreDelim, "store")

\* the caller persists the returned slug and drops the frame
Insert ==
    /\ pc = "done"
    /\ store' = store \cup {result}
    /\ issued' = Append(issued,
                        [base |-> base, k |-> counter - 1, slug |-> result])
    /\ pc' = "idle"
    /\ input_string' = <<>>
    /\ arg' = "store"
    /\ delimiter' = "-"
    /\ base' = <<>>
    /\ slug' = <<>>
    /\ counter' = 0
    /\ result' = <<>>
    /\ tested' = 0
    /\ UNCHANGED <<default_slugs, datevars, numvars>>

StoreNext ==
    \/ StoreCall
    \/ Step
    \/ Return
    \/ Insert

StoreSpec == StoreInit /\ [][StoreNext]_vars

\* the issues before the j-th one that had the same base
EarlierSameBase(j) == {i \in 1..(j - 1) : issued[i].base = issued[j].base}

\* C5 as stated: the issued slugs are pairwise distinct, and the inputs with
\* one base receive base, base-1, base-2, ... in the order of issue
C5_BaseThenConsecutive ==
    /\ \A i, j \in 1..Len(issued) : i < j => issued[i].slug # issued[j].slug
    /\ \A j \in 1..Len(issued) : issued[j].k = Cardinality(EarlierSameBase(j))

\* C5 as amended: the issued slugs are pairwise distinct, and the inputs with
\* one base receive base or base + delimiter + k with k strictly increasing
\* in the order of issue
C5_DistinctIncreasing ==
    /\ \A i, j \in 1..Len(issued) : i < j => issued[i].slug # issued[j].slug
    /\ \A j \in 1..Len(issued) :
           /\ issued[j].slug =
                  IF issued[j].k = 0 THEN issued[j].base
                  ELSE issued[j].base \o <<StoreDelim>> \o IntToStr(issued[j].k)
           /\ \A i \in EarlierSameBase(j) : issued[i].k < issued[j].k

C5_Witness ==
    /\ Len(issued) = 3
    /\ issued[1].slug = <<"a", "-", "1">>
    /\ issued[2].slug = <<"a">>
    /\ issued[3].base = <<"a">>
    /\ issued[3].slug = <<"a", "-", "2">>

-----------------------------------------------------------------------------
(* format_date, format_datetime *)

DateTimes ==
    [tag : {"datetime"}, year : {1999, 2024}, month : {1, 12}, day : {1, 31},
     hour : {0, 23}, minute : {0, 59}]

DateValues == {None, Str(<<>>), Str(<<"x">>)} \cup DateTimes

DateDefault == <<"%d", "/", "%m", "/", "%Y">>
DatetimeDefault == <<"%d", "/", "%m", "/", "%Y", Space, "%H", ":", "%M">>
IsoFormat == <<"%Y", "-", "%m", "-", "%d">>
Formats == {DateDefault, DatetimeDefault, IsoFormat}

\* bool(v)
Truthy(v) ==
    CASE v.tag = "none" -> FALSE
      [] v.tag = "str" -> v.val # <<>>
      [] OTHER -> TRUE

\* type(v): a type object
TypeOf(v) == [tag |-> "type", name |-> v.tag]

Pad2(n) == IF n < 10 THEN <<"0">> \o IntToStr(n) ELSE IntToStr(n)

Directive(dt, tok) ==
    CASE tok = "%d" -> Pad2(dt.day)
      [] tok = "%m" -> Pad2(dt.month)
      [] tok = "%Y" -> IntToStr(dt.year)
      [] tok = "%H" -> Pad2(dt.hour)
      [] tok = "%M" -> Pad2(dt.minute)
      [] OTHER -> <<tok>>

\* dt.strftime(fmt)
RECURSIVE Strftime(_, _)
Strftime(dt, fmt) ==
    IF fmt = <<>> THEN <<>>
    ELSE Directive(dt, Head(fmt)) \o Strftime(dt, Tail(fmt))

\* lines 132-137 and 148-153
FormatBody(v, fmt) ==
    IF ~Truthy(v) THEN Str(<<>>)
    ELSE IF ~(TypeOf(v) = Str(<<"datetime">>)) THEN v
    ELSE Str(Strftime(v, fmt))

\* format_date(d, format='%d/%m/%Y')
FormatDate(v, given, omitted) ==
    /\ date_pc = "idle"
    /\ date_pc' = "format_date"
    /\ d' = v
    /\ format' = IF omitted THEN DateDefault ELSE given
    /\ date_ret' = FormatBody(v, format')
    /\ UNCHANGED <<slugvars, numvars>>

\* format_datetime(d, format='%d/%m/%Y %H:%M')
FormatDatetime(v, given, omitted) ==
    /\ date_pc = "idle"
    /\ date_pc' = "format_datetime"
    /\ d' = v
    /\ format' = IF omitted THEN DatetimeDefault ELSE given
    /\ date_ret' = FormatBody(v, format')
    /\ UNCHANGED <<slugvars, numvars>>

\* the template consumes the returned value
DateConsume ==
    /\ date_pc # "idle"
    /\ date_pc' = "idle"
    /\ d' = None
    /\ format' = <<>>
    /\ date_ret' = None
    /\ UNCHANGED <<slugvars, numvars>>

DateInit ==
    /\ NoCall
    /\ store = {}
    /\ default_slugs = {}
    /\ issued = <<>>
    /\ NoDateCall
    /\ NoNumCall

DateNext ==
    \/ \E v \in DateValues, f \in Formats, o \in BOOLEAN : FormatDate(v, f, o)
    \/ \E v \in DateValues, f \in Formats, o \in BOOLEAN : FormatDatetime(v, f, o)
    \/ DateConsume

DateSpec == DateInit /\ [][DateNext]_vars

\* C9: the formatters return '' for a falsy d and, for a datetime d, the
\* string d.strftime(format)
C9_FormatsDatetime ==
    date_pc # "idle" =>
        /\ ~Truthy(d) => date_ret = Str(<<>>)
        /\ d.tag = "datetime" => date_ret = Str(Strftime(d, format))

-----------------------------------------------------------------------------
(* readable_number *)

\* a number is mant * 1000^exp
Mants == {-5, 0, 1, 2, 999}
Numbers == [tag : {"num"}, mant : Mants, exp : 0..MaxExp]
Things == {<<>>, <<"x">>}
Suffixes == << <<>>, <<"K">>, <<"M">>, <<"B">> >>

\* num <= 1
LE1(v) == v.mant <= 0 \/ (v.exp = 0 /\ v.mant <= 1)

\* abs(num) >= 1000
AbsGE1000(v) == v.mant # 0 /\ v.exp >= 1

\* num / 1000.0
Div1000(v) == [v EXCEPT !.exp = @ - 1]

RECURSIVE Zeros(_)
Zeros(n) == IF n = 0 THEN <<>> ELSE <<"0">> \o Zeros(n - 1)

\* '%i' % num
FmtInt(v) ==
    IF v.mant = 0 THEN <<"0">>
    ELSE (IF v.mant < 0 THEN <<"-">> \o IntToStr(-v.mant) ELSE IntToStr(v.mant))
         \o Zeros(3 * v.exp)

\* '%.1f' % num
FmtF1(v) == FmtInt(v) \o <<".", "0">>

\* lines 167-170: a space in front of a non-empty thing
Spaced(th) == IF th # <<>> THEN <<Space>> \o th ELSE th

\* lines 163-176
NumCall(v, st, pt) ==
    /\ num_pc = "idle"
    /\ num' = v
    /\ IF v = None
       THEN /\ num_pc' = "done"
            /\ num_ret' = Str(<<>>)
            /\ UNCHANGED <<things, magnitude>>
       ELSE /\ things' = <<Str(Spaced(st)), Str(Spaced(pt))>>
            /\ IF LE1(v)
               THEN /\ num_pc' = "done"
                    /\ num_ret' = Str(FmtInt(v) \o Spaced(st))
                    /\ UNCHANGED magnitude
               ELSE /\ num_pc' = "loop"
                    /\ magnitude' = 0
                    /\ UNCHANGED num_ret
    /\ UNCHANGED <<slugvars, datevars>>

\* lines 177-179
NumLoop ==
    /\ num_pc = "loop"
    /\ AbsGE1000(num)
    /\ magnitude' = magnitude + 1
    /\ num' = Div1000(num)
    /\ UNCHANGED <<num_pc, things, num_ret, slugvars, datevars>>

\* lines 180-183
NumFormat ==
    /\ num_pc = "loop"
    /\ ~AbsGE1000(num)
    /\ num_pc' = "done"
    /\ num_ret' =
           IF magnitude = 0 THEN Str(FmtInt(num) \o things[2].val)
           ELSE IF magnitude + 1 > Len(Suffixes) THEN [tag |-> "IndexError"]
           ELSE Str(FmtF1(num) \o Suffixes[magnitude + 1] \o things[2].val)
    /\ UNCHANGED <<num, things, magnitude, slugvars, datevars>>

\* the template consumes the returned value
NumConsume ==
    /\ num_pc = "done"
    /\ num_pc' = "idle"
    /\ num' = None
    /\ things' = <<Str(<<>>), Str(<<>>)>>
    /\ magnitude' = 0
    /\ num_ret' = None
    /\ UNCHANGED <<slugvars, datevars>>

NumInit ==
    /\ NoCall
    /\ store = {}
    /\ default_slugs = {}
    /\ issued = <<>>
    /\ NoDateCall
    /\ NoNumCall

NumNext ==
    \/ \E v \in Numbers \cup {None}, st \in Things, pt \in Things :
           NumCall(v, st, pt)
    \/ NumLoop
    \/ NumFormat
    \/ NumConsume

NumSpec == NumInit /\ [][NumNext]_vars

\* C10: readable_number returns a string for every number: when the loop is
\* left the magnitude is an index of the suffix list (0..3) and the scaled
\* value is below 1000
C10_MagnitudeInRange ==
    /\ (num_pc = "loop" /\ ~AbsGE1000(num)) => magnitude \in 0..3
    /\ num_pc = "done" => num_ret.tag = "str"

====
